---------------------------- MODULE Spec2Model ----------------------------
(***************************************************************************)
(* Gym backend (src/main.py, src/schemas.py): the booking admission check  *)
(* of POST /bookings, GET /bookings, and the email login of                *)
(* POST /auth/login, over a document store with the collections gymclass,  *)
(* booking and member.                                                     *)
(*                                                                         *)
(* Every request is handled by a worker.  A handler is split at its store  *)
(* calls: each find_one, count_documents and insert is one atomic step.    *)
(* Strings that the code parses (class identifiers, generated ids) are     *)
(* sequences of one-character strings; the other strings are opaque.       *)
(***************************************************************************)
EXTENDS Integers, Sequences, FiniteSets, TLC

(* ------------------------------ bounds -------------------------------- *)

\* workers that may handle requests at the same time (concurrent specification)
NumProcs == 2
\* requests accepted in one behaviour of a specification of one handler
MaxRequests == 3
\* requests accepted in one behaviour of the specification of both handlers
MaxMixedRequests == 2
\* largest capacity of the class in the initial store
MaxCapacity == 2

(* --------------------------- program constants ------------------------ *)

\* capacity assumed for a class that is not found (main.py:119)
DefaultCapacity == 9999

(* ------------------------------ strings -------------------------------- *)

LowerHex == <<"0", "1", "2", "3", "4", "5", "6", "7", "8", "9",
              "a", "b", "c", "d", "e", "f">>
UpperHex == <<"0", "1", "2", "3", "4", "5", "6", "7", "8", "9",
              "A", "B", "C", "D", "E", "F">>

HexDigits == {LowerHex[i] : i \in 1..16} \cup {UpperHex[i] : i \in 1..16}

\* value (0..15) of each hexadecimal digit, either case
HexValues ==
    [ch \in HexDigits |-> CHOOSE v \in 0..15 : LowerHex[v + 1] = ch \/ UpperHex[v + 1] = ch]

HexValue(ch) == HexValues[ch]

\* result of ObjectId(s) when s is not 24 hexadecimal digits (it raises)
InvalidId == <<"InvalidId">>

\* bson.ObjectId(s) for a string s: s must be 24 hexadecimal digits of either
\* case; the value is the 12 bytes they spell, written here in lower case (which
\* is also str() of the value).
ObjectId(s) ==
    IF Len(s) = 24 /\ \A i \in 1..24 : s[i] \in HexDigits
    THEN [i \in 1..24 |-> LowerHex[HexValue(s[i]) + 1]]
    ELSE InvalidId

\* the n-th identifier the store generates: 24 lower-case hexadecimal digits
GenId(n) ==
    [i \in 1..24 |-> IF i <= 16 THEN "0"
                     ELSE LowerHex[((n \div (16 ^ (24 - i))) % 16) + 1]]

\* the 24-character string made of one character
Rep(ch) == [i \in 1..24 |-> ch]

(* ------------------------------- inputs -------------------------------- *)

\* _id of the class of the initial store
ClassA == Rep("a")

\* class_id values of booking requests: the class's id, the same id in upper
\* case, a well-formed id of no class, and a malformed id
ClassIds == {Rep("a"), Rep("A"), Rep("b"), <<"z">>}

MemberIds == {"", "m1"}

Emails == {"e1", "e2"}

\* AuthRequest.full_name is Optional[str]
None == "None"
FullNames == {None, "", "Ann"}

Procs == 1..NumProcs

(* ------------------------------ responses ------------------------------ *)

NoBody == <<>>

StorageUnavailable == [status |-> 500, detail |-> "Database not configured", id |-> NoBody]
ClassFull == [status |-> 400, detail |-> "Class is full", id |-> NoBody]
NotFound == [status |-> 404, detail |-> "Member not found. Provide full_name to sign up.", id |-> NoBody]
ValidationError == [status |-> 422, detail |-> "Unprocessable Entity", id |-> NoBody]
Ok(id) == [status |-> 200, detail |-> "", id |-> id]

VARIABLES
    db,          \* TRUE when the store is connected (db is not None)
    gymclass,    \* collection gymclass: documents [_id, capacity]
    booking,     \* collection booking: documents [_id, member_id, class_id, status]
    member,      \* collection member: documents [_id, full_name, email]
    nextOid,     \* number of the next generated _id
    pc,          \* per worker: the handler's position
    req,         \* per worker: the request being handled
    class_obj,   \* per worker: book_class's class_obj (a set of at most one document)
    current,     \* per worker: book_class's current
    found,       \* per worker: login's member (a set of at most one document)
    log,         \* the responses sent, in order, each with its request and worker
    booking0     \* the booking collection of the initial state

vars == <<db, gymclass, booking, member, nextOid, pc, req, class_obj, current,
          found, log, booking0>>

store == <<gymclass, booking, member>>

\* a request: BookingRequest(member_id, class_id) or AuthRequest(full_name, email)
BookingRequest(m, c) ==
    [op |-> "book", member_id |-> m, class_id |-> c, email |-> "", full_name |-> None]
AuthRequest(n, e) ==
    [op |-> "login", member_id |-> "", class_id |-> <<>>, email |-> e, full_name |-> n]

NoRequest == [op |-> "", member_id |-> "", class_id |-> <<>>, email |-> "", full_name |-> None]

BookingRequests == {BookingRequest(m, c) : m \in MemberIds, c \in ClassIds}
AuthRequests == {AuthRequest(n, e) : n \in FullNames, e \in Emails}

\* the requests of the concurrent specification: one member, the class's id in
\* both cases
RaceRequests == {BookingRequest("m1", c) : c \in {Rep("a"), Rep("A")}}

\* the requests against the store of InitFull: one member, the class's id, a
\* well-formed id of no class and a malformed id
FullRequests == {BookingRequest("m1", c) : c \in {Rep("a"), Rep("b"), <<"z">>}}

(* ------------------------------ the store ------------------------------ *)

\* create_document(collection, record): the document stored, the record plus a
\* generated _id
create_document(record) == ("_id" :> GenId(nextOid)) @@ record

\* get_documents(collection, query): the documents equal to the query on every
\* field of the query
get_documents(collection, query) ==
    {d \in collection : \A f \in DOMAIN query : d[f] = query[f]}

\* the order of two generated ids (24 lower-case hexadecimal digits)
id_before(a, b) ==
    \E i \in 1..24 : /\ \A j \in 1..(i - 1) : a[j] = b[j]
                     /\ HexValue(a[i]) < HexValue(b[i])

\* db[...].find_one(query): no document, or the first one that matches (the store
\* returns documents in insertion order, which is the order of the generated ids)
find_one(collection, query) ==
    LET hits == get_documents(collection, query)
    IN  IF hits = {} THEN {}
        ELSE {CHOOSE d \in hits : \A e \in hits : d._id = e._id \/ id_before(d._id, e._id)}

(* ------------------------------ book_class ----------------------------- *)

\* main.py:115-118: the class document for a class_id, none when the id is
\* malformed (ObjectId raises) or no class has it
fetch_class(class_id) ==
    IF ObjectId(class_id) = InvalidId THEN {}
    ELSE find_one(gymclass, [_id |-> ObjectId(class_id)])

\* main.py:119
capacity(cls) ==
    IF cls = {} THEN DefaultCapacity
    ELSE LET c == CHOOSE c \in cls : TRUE
         IN  IF "capacity" \in DOMAIN c THEN c.capacity ELSE DefaultCapacity

\* count_documents({"class_id": ..., "status": "booked"}) on a booking collection
booked(collection, class_id) ==
    Cardinality(get_documents(collection, [class_id |-> class_id, status |-> "booked"]))

\* a slip of the status literal: every status counts
count_any_status(class_id) ==
    Cardinality(get_documents(booking, [class_id |-> class_id]))

\* main.py:121
count_booked(class_id) == booked(booking, class_id)

\* an off-by-one of the comparison
is_full_strict(cur, cap) == cur > cap

\* main.py:122
is_full(cur, cap) == cur >= cap

\* the booking stored with another status
BookingPending(r) ==
    [member_id |-> r.member_id, class_id |-> r.class_id, status |-> "pending"]

\* main.py:125: Booking(**req.model_dump(), status="booked")
Booking(r) == [member_id |-> r.member_id, class_id |-> r.class_id, status |-> "booked"]

Respond(p, res) ==
    /\ log' = Append(log, [worker |-> p, req |-> req[p], res |-> res])
    /\ pc' = [pc EXCEPT ![p] = "idle"]

\* the check of the connection left out
BookStartUnchecked(p, requests) ==
    /\ pc[p] = "idle"
    /\ \E r \in requests :
         /\ req' = [req EXCEPT ![p] = r]
         /\ class_obj' = [class_obj EXCEPT ![p] = {}]
         /\ current' = [current EXCEPT ![p] = 0]
         /\ pc' = [pc EXCEPT ![p] = "book_fetch"]
    /\ UNCHANGED <<db, store, nextOid, found, log, booking0>>

\* the request reaches book_class; main.py:111-112
BookStart(p, requests) ==
    /\ pc[p] = "idle"
    /\ \E r \in requests :
         /\ req' = [req EXCEPT ![p] = r]
         /\ class_obj' = [class_obj EXCEPT ![p] = {}]
         /\ current' = [current EXCEPT ![p] = 0]
         /\ IF ~db
            THEN /\ log' = Append(log, [worker |-> p, req |-> r, res |-> StorageUnavailable])
                 /\ pc' = pc
            ELSE /\ pc' = [pc EXCEPT ![p] = "book_fetch"]
                 /\ log' = log
    /\ UNCHANGED <<db, store, nextOid, found, booking0>>

\* main.py:115-118
BookFetch(p) ==
    /\ pc[p] = "book_fetch"
    /\ class_obj' = [class_obj EXCEPT ![p] = fetch_class(req[p].class_id)]
    /\ pc' = [pc EXCEPT ![p] = "book_count"]
    /\ UNCHANGED <<db, store, nextOid, req, current, found, log, booking0>>

\* main.py:121
BookCount(p) ==
    /\ pc[p] = "book_count"
    /\ current' = [current EXCEPT ![p] = count_booked(req[p].class_id)]
    /\ pc' = [pc EXCEPT ![p] = "book_admit"]
    /\ UNCHANGED <<db, store, nextOid, req, class_obj, found, log, booking0>>

\* the insert moved before the check: the booking is stored, then rejected
BookRejectAfterInsert(p) ==
    /\ pc[p] = "book_admit"
    /\ is_full(current[p], capacity(class_obj[p]))
    /\ booking' = booking \cup {create_document(Booking(req[p]))}
    /\ nextOid' = nextOid + 1
    /\ Respond(p, ClassFull)
    /\ UNCHANGED <<db, gymclass, member, req, class_obj, current, found, booking0>>

\* main.py:122-123
BookReject(p) ==
    /\ pc[p] = "book_admit"
    /\ is_full(current[p], capacity(class_obj[p]))
    /\ Respond(p, ClassFull)
    /\ UNCHANGED <<db, store, nextOid, req, class_obj, current, found, booking0>>

\* main.py:125-126
BookInsert(p) ==
    /\ pc[p] = "book_admit"
    /\ ~is_full(current[p], capacity(class_obj[p]))
    /\ booking' = booking \cup {create_document(Booking(req[p]))}
    /\ nextOid' = nextOid + 1
    /\ Respond(p, Ok(GenId(nextOid)))
    /\ UNCHANGED <<db, gymclass, member, req, class_obj, current, found, booking0>>

\* main.py:128-138: GET /bookings; an empty or absent parameter is no filter
list_bookings(member_id, class_id) ==
    {d \in booking :
       /\ (member_id # "" => d.member_id = member_id)
       /\ (class_id # <<>> => d.class_id = class_id)}

(* -------------------------------- login -------------------------------- *)

\* a Python truth test of an Optional[str]
truthy(x) == x # None /\ x # ""

\* main.py:56: Member(full_name=..., email=...); is_active defaults to True
Member(r) == [full_name |-> r.full_name, email |-> r.email, is_active |-> TRUE]

\* the request reaches login; main.py:46-47
LoginStart(p, requests) ==
    /\ pc[p] = "idle"
    /\ \E r \in requests :
         /\ req' = [req EXCEPT ![p] = r]
         /\ found' = [found EXCEPT ![p] = {}]
         /\ IF ~db
            THEN /\ log' = Append(log, [worker |-> p, req |-> r, res |-> StorageUnavailable])
                 /\ pc' = pc
            ELSE /\ pc' = [pc EXCEPT ![p] = "login_find"]
                 /\ log' = log
    /\ UNCHANGED <<db, store, nextOid, class_obj, current, booking0>>

\* main.py:48
LoginFind(p) ==
    /\ pc[p] = "login_find"
    /\ found' = [found EXCEPT ![p] = find_one(member, [email |-> req[p].email])]
    /\ pc' = [pc EXCEPT ![p] = "login_decide"]
    /\ UNCHANGED <<db, store, nextOid, req, class_obj, current, log, booking0>>

\* main.py:49-51
LoginExisting(p) ==
    /\ pc[p] = "login_decide"
    /\ found[p] # {}
    /\ Respond(p, Ok((CHOOSE d \in found[p] : TRUE)._id))
    /\ UNCHANGED <<db, store, nextOid, req, class_obj, current, found, booking0>>

\* main.py:53-54
LoginNotFound(p) ==
    /\ pc[p] = "login_decide"
    /\ found[p] = {}
    /\ ~truthy(req[p].full_name)
    /\ Respond(p, NotFound)
    /\ UNCHANGED <<db, store, nextOid, req, class_obj, current, found, booking0>>

\* the member is created whether or not the lookup found one
LoginCreateAlways(p) ==
    /\ pc[p] = "login_decide"
    /\ truthy(req[p].full_name)
    /\ member' = member \cup {create_document(Member(req[p]))}
    /\ nextOid' = nextOid + 1
    /\ pc' = [pc EXCEPT ![p] = "login_created"]
    /\ UNCHANGED <<db, gymclass, booking, req, class_obj, current, found, log, booking0>>

\* main.py:55-56
LoginCreate(p) ==
    /\ pc[p] = "login_decide"
    /\ found[p] = {}
    /\ truthy(req[p].full_name)
    /\ member' = member \cup {create_document(Member(req[p]))}
    /\ nextOid' = nextOid + 1
    /\ pc' = [pc EXCEPT ![p] = "login_created"]
    /\ UNCHANGED <<db, gymclass, booking, req, class_obj, current, found, log, booking0>>

\* main.py:57-59
LoginCreated(p) ==
    /\ pc[p] = "login_created"
    /\ found' = [found EXCEPT ![p] = find_one(member, [email |-> req[p].email])]
    /\ Respond(p, Ok((CHOOSE d \in found'[p] : TRUE)._id))
    /\ UNCHANGED <<db, store, nextOid, req, class_obj, current, booking0>>

(* --------------------------- initial states ---------------------------- *)

\* bookings the store may hold before the first request, all of the class: one
\* booked, one canceled and one attended
Seed(n, status) ==
    ("_id" :> GenId(n)) @@ [member_id |-> "m1", class_id |-> ClassA, status |-> status]

SeedStores ==
    {{}, {Seed(1, "booked")}, {Seed(2, "canceled"), Seed(3, "attended")},
     {Seed(1, "booked"), Seed(2, "canceled"), Seed(3, "attended")}}

InitWorkers ==
    /\ pc = [p \in Procs |-> "idle"]
    /\ req = [p \in Procs |-> NoRequest]
    /\ class_obj = [p \in Procs |-> {}]
    /\ current = [p \in Procs |-> 0]
    /\ found = [p \in Procs |-> {}]
    /\ log = <<>>

\* the store holds one class; without a connection there is no store
Init ==
    /\ db \in BOOLEAN
    /\ IF db
       THEN /\ \E c \in 1..MaxCapacity : gymclass = {[_id |-> ClassA, capacity |-> c]}
            /\ booking \in SeedStores
       ELSE /\ gymclass = {}
            /\ booking = {}
    /\ booking0 = booking
    /\ member = {}
    /\ nextOid = 4
    /\ InitWorkers

\* the class starts with no booked booking
InitRace ==
    /\ Init
    /\ db
    /\ count_booked(ClassA) = 0

\* the store holds DefaultCapacity booked bookings of a class_id of no class
InitFull ==
    /\ db = TRUE
    /\ \E c \in 1..MaxCapacity : gymclass = {[_id |-> ClassA, capacity |-> c]}
    /\ booking = {("_id" :> GenId(n)) @@
                    [member_id |-> "m1", class_id |-> <<"z">>, status |-> "booked"] :
                  n \in 1..DefaultCapacity}
    /\ booking0 = booking
    /\ member = {}
    /\ nextOid = DefaultCapacity + 1
    /\ InitWorkers

(* ---------------------------- specifications --------------------------- *)

\* requests accepted so far
Started == Len(log) + Cardinality({p \in Procs : pc[p] # "idle"})

book_class(p, requests, limit) ==
    \/ (Started < limit /\ BookStart(p, requests))
    \/ BookFetch(p)
    \/ BookCount(p)
    \/ BookReject(p)
    \/ BookInsert(p)

login(p, requests, limit) ==
    \/ (Started < limit /\ LoginStart(p, requests))
    \/ LoginFind(p)
    \/ LoginExisting(p)
    \/ LoginNotFound(p)
    \/ LoginCreate(p)
    \/ LoginCreated(p)

\* one worker, both handlers: each request completes before the next starts
Next ==
    \/ book_class(1, BookingRequests, MaxMixedRequests)
    \/ login(1, AuthRequests, MaxMixedRequests)

Spec == Init /\ [][Next]_vars

\* one worker, bookings only
NextBook == book_class(1, BookingRequests, MaxRequests)

SpecBook == Init /\ [][NextBook]_vars

\* one worker, logins only
NextLogin == login(1, AuthRequests, MaxRequests)

SpecLogin == Init /\ [][NextLogin]_vars

\* NumProcs workers whose bookings interleave at the store calls
NextRace == \E p \in Procs : book_class(p, RaceRequests, MaxRequests)

SpecRace == InitRace /\ [][NextRace]_vars

\* one worker, bookings only, from the store of InitFull
NextFull == book_class(1, FullRequests, MaxRequests)

SpecFull == InitFull /\ [][NextFull]_vars

(* ------------------------- properties: helpers ------------------------- *)

\* the class_id resolves to a class of the store
Exists(class_id) == fetch_class(class_id) # {}

\* the capacity book_class uses for a class_id
CapacityOf(class_id) == capacity(fetch_class(class_id))

\* the responses sent so far to booking requests for a class_id, in order
Attempts(class_id) ==
    SelectSeq(log, LAMBDA e : e.req.op = "book" /\ e.req.class_id = class_id)

Last(s) == s[Len(s)]

(* ------------------------------- C1 ------------------------------------ *)

\* C1: for a class_id of an existing class with capacity C that starts with no
\* booked booking, of the booking attempts for it that run one after another the
\* i-th returns an id exactly when i <= C, and every later one is rejected with
\* ClassFull (400 "Class is full").
C1_FirstCSucceed ==
    \A X \in ClassIds :
        (Exists(X) /\ booked(booking0, X) = 0) =>
            LET a == Attempts(X)
                C == CapacityOf(X)
            IN  \A i \in 1..Len(a) :
                    /\ (i <= C) => (a[i].res.status = 200 /\ Len(a[i].res.id) > 0)
                    /\ (i > C) => a[i].res = ClassFull

\* the class has taken C bookings and rejected the (C+1)-th attempt
C1_Witness ==
    /\ Exists(ClassA)
    /\ booked(booking0, ClassA) = 0
    /\ Len(Attempts(ClassA)) = CapacityOf(ClassA) + 1
    /\ Last(Attempts(ClassA)).res = ClassFull
    /\ count_booked(ClassA) = CapacityOf(ClassA)

(* ------------------------------- C2 ------------------------------------ *)

\* C2: under serialized access, from a store in which no class has more booked
\* bookings than its capacity, every class of the store has at most capacity
\* booking documents with its class_id and status booked, whatever the booking
\* attempts were.
C2_CapacityInvariant ==
    \A c \in gymclass : count_booked(c._id) <= c.capacity

\* a full class that has rejected an attempt
C2_Witness ==
    /\ \E c \in gymclass : count_booked(c._id) = c.capacity
    /\ \E i \in 1..Len(log) : log[i].req.class_id = ClassA /\ log[i].res = ClassFull
    /\ booking # booking0

(* ------------------------------- C3 ------------------------------------ *)

\* worker p sends the response of a booking attempt in this step
BookResponds(p) == pc[p] = "book_admit" /\ pc'[p] = "idle"

\* C3: the check and the insert of a booking are separate store steps, so when
\* attempts for one class interleave the class gets over-booked, and only in this
\* way: every insert that takes an existing class above its capacity is made by
\* an attempt that passed its check on a count read before another attempt's
\* insert (its count is below the capacity and below the count the store holds
\* when it inserts).
C3_OverbookingByStaleCount ==
    [][\A p \in Procs :
         LET X == req[p].class_id
         IN  (/\ BookResponds(p)
              /\ booking' # booking
              /\ Exists(X)
              /\ booked(booking', X) > CapacityOf(X))
             => /\ current[p] < CapacityOf(X)
                /\ current[p] < count_booked(X)
                /\ booked(booking', X) = count_booked(X) + 1]_vars

\* an existing class holds more booked bookings than its capacity
C3_Witness ==
    \E c \in gymclass : count_booked(c._id) > c.capacity

(* ------------------------------- C9 ------------------------------------ *)

\* C9: with at most NumProcs attempts in flight against an existing class of
\* capacity C that starts with no booked booking, the class never holds more than
\* C + NumProcs - 1 booked bookings; no booking is ever removed or changed, a
\* count read returns the count of the store, and an attempt that read a count of
\* C or more is rejected with ClassFull and inserts nothing.
C9_BoundedOverbooking ==
    /\ [](\A X \in ClassIds :
            Exists(X) => count_booked(X) <= CapacityOf(X) + NumProcs - 1)
    /\ [][booking \subseteq booking']_vars
    /\ [][\A p \in Procs :
            LET X == req[p].class_id
            IN  /\ (pc[p] = "book_count" /\ pc'[p] = "book_admit")
                     => current'[p] = booked(booking, X)
                /\ (BookResponds(p) /\ Exists(X) /\ current[p] >= CapacityOf(X))
                     => /\ Last(log').res = ClassFull
                        /\ booking' = booking]_vars

\* the bound is met: a class of capacity C holds C + NumProcs - 1 booked bookings
\* and an attempt that read the count afterwards has been rejected
C9_Witness ==
    /\ count_booked(ClassA) = CapacityOf(ClassA) + NumProcs - 1
    /\ Len(log) > 0
    /\ Last(log).req.class_id = ClassA
    /\ Last(log).res = ClassFull

(* ------------------------------- C4 ------------------------------------ *)

\* C4: a booking attempt whose class_id is malformed or matches no class always
\* succeeds and creates a booking with status booked, however many booked
\* bookings that class_id already has; it is never rejected with ClassFull.
C4_UnknownClassNeverFull ==
    \A i \in 1..Len(log) :
        (log[i].req.op = "book" /\ ~Exists(log[i].req.class_id)) =>
            /\ log[i].res.status = 200
            /\ \E b \in booking :
                 /\ b._id = log[i].res.id
                 /\ b.class_id = log[i].req.class_id
                 /\ b.status = "booked"

(* ------------------------------- C5 ------------------------------------ *)

\* the documents of the bookings that the log reports as created
Created ==
    {b \in booking : \E i \in 1..Len(log) : log[i].res = Ok(b._id)}

\* C5: a booking attempt rejected with ClassFull creates no booking and leaves
\* every collection unchanged: the step that rejects changes no collection, and
\* the booking collection is the initial one plus one document for each attempt
\* that returned an id.
C5_RejectionWritesNothing ==
    /\ [](db => /\ booking = booking0 \cup Created
                /\ Cardinality(booking) = Cardinality(booking0) +
                     Len(SelectSeq(log, LAMBDA e : e.res.status = 200))
                /\ nextOid = 4 + Len(SelectSeq(log, LAMBDA e : e.res.status = 200)))
    /\ [][\A p \in Procs :
            (BookResponds(p) /\ Last(log').res = ClassFull)
                => UNCHANGED <<store, nextOid>>]_vars

\* an attempt has been rejected after another one was admitted
C5_Witness ==
    /\ Len(log) >= 2
    /\ Last(log).res = ClassFull
    /\ \E i \in 1..Len(log) : log[i].res.status = 200

(* ------------------------------- C6 ------------------------------------ *)

\* C6: without a connection to the store (db is None) every booking attempt and
\* every login gets 500 "Database not configured", which is none of ClassFull
\* (400), NotFound (404) and a validation error (422), and the handler stops
\* before any read or write of the store: no worker ever stands at a store call,
\* no result of a read is held, and no collection or id counter changes.
C6_StorageUnavailable ==
    ~db =>
        /\ \A i \in 1..Len(log) :
             /\ log[i].res = StorageUnavailable
             /\ log[i].res.status = 500
             /\ log[i].res \notin {ClassFull, NotFound, ValidationError}
        /\ \A p \in Procs :
             /\ pc[p] = "idle"
             /\ class_obj[p] = {}
             /\ current[p] = 0
             /\ found[p] = {}
        /\ gymclass = {} /\ booking = {} /\ member = {}
        /\ nextOid = 4

\* without a connection, a booking attempt and a login have both been answered
C6_Witness ==
    /\ ~db
    /\ \E i \in 1..Len(log) : log[i].req.op = "book" /\ log[i].res.status = 500
    /\ \E i \in 1..Len(log) : log[i].req.op = "login" /\ log[i].res.status = 500

(* ------------------------------- C7 ------------------------------------ *)

\* a booking attempt has just returned an id (one worker: nothing ran since)
JustBooked ==
    /\ pc[1] = "idle"
    /\ Len(log) > 0
    /\ Last(log).req.op = "book"
    /\ Last(log).res.status = 200

\* the document that create reports for a request and the id returned
Stored(r, id) ==
    [_id |-> id, member_id |-> r.member_id, class_id |-> r.class_id, status |-> "booked"]

C8_OutcomeByBookedCount ==
    [][\A p \in Procs :
         LET X == req[p].class_id
         IN  (BookResponds(p) /\ Exists(X)) =>
                /\ (booked(booking, X) < CapacityOf(X)) =>
                      /\ Last(log').res.status = 200
                      /\ booked(booking', X) = booked(booking, X) + 1
                /\ (booked(booking, X) >= CapacityOf(X)) =>
                      /\ Last(log').res = ClassFull
                      /\ booking' = booking]_vars

\* a member who already holds a booked booking of the class has booked it again,
\* while the store holds a canceled and an attended booking of the class and a
\* booked booking of another class_id
C8_Witness ==
    /\ JustBooked
    /\ Last(log).req.class_id = ClassA
    /\ \E b \in booking :
         /\ b._id # Last(log).res.id
         /\ b.member_id = Last(log).req.member_id
         /\ b.class_id = ClassA
         /\ b.status = "booked"
    /\ \E b \in booking : b.class_id = ClassA /\ b.status = "canceled"
    /\ \E b \in booking : b.class_id = ClassA /\ b.status = "attended"
    /\ \E b \in booking : b.class_id # ClassA /\ b.status = "booked"

(* ------------------------------- C10 ----------------------------------- *)

\* the login answered i-th found a member for its email: an earlier login for
\* that email returned a member (the collection starts empty and nothing else
\* creates members)
Known(i) ==
    \E j \in 1..(i - 1) : log[j].req.email = log[i].req.email /\ log[j].res.status = 200

\* worker p sends the response of a login that made no member
LoginRespondsWithoutCreate(p) == pc[p] = "login_decide" /\ pc'[p] = "idle"

\* C10: from an empty member collection, after any logins that run one after
\* another there is at most one member document per email; a login for an email
\* that has a member writes nothing, and a login for an unknown email without
\* full_name fails with NotFound (404) and writes nothing.
C10_OneMemberPerEmail ==
    /\ [](\A e \in Emails : Cardinality(get_documents(member, [email |-> e])) <= 1)
    /\ [](db => \A i \in 1..Len(log) :
            /\ log[i].res = NotFound <=> (~Known(i) /\ ~truthy(log[i].req.full_name))
            /\ log[i].res.status \in {200, 404}
            /\ Known(i) => \E j \in 1..(i - 1) : log[j].res = log[i].res)
    /\ [](db => Cardinality(member) =
                  Cardinality({log[i].res.id : i \in 1..Len(log)} \ {NoBody})
                  + (IF pc[1] = "login_created" THEN 1 ELSE 0))
    /\ [][\A p \in Procs :
            LoginRespondsWithoutCreate(p) => UNCHANGED <<store, nextOid>>]_vars

\* a member exists, a second login for the member's email returned the member,
\* and a login for an unknown email without full_name got NotFound
C10_Witness ==
    /\ Cardinality(member) = 1
    /\ \E i \in 1..Len(log) : Known(i) /\ log[i].res.status = 200
    /\ \E i \in 1..Len(log) : log[i].res = NotFound

=============================================================================
